---- MODULE Spec2Model ----
(***************************************************************************)
(* Model of the cross-instance synchronisation middleware createWithSync   *)
(* (src/src/sync-zustand/sync-zustand-middleware.ts).                      *)
(*                                                                         *)
(* Each instance (browser tab / window) wraps one store.  The top-level    *)
(* fields of the stores of the model are, in Object.keys order:            *)
(*   count    a primitive,                                                 *)
(*   _reset   a function (like increment/decrement of use-synced-store),   *)
(*   _token   a primitive that a configuration may exclude,                *)
(*   actions  an object holding functions (as in use-people-store.ts),     *)
(* and a store has all four, the first three, or only _reset and _token.   *)
(* The transport is the channel of getSyncChannel: postMessage makes a     *)
(* structured clone of the message (which raises on an object that holds a *)
(* function) and queues the clone for every other subscribed instance;     *)
(* messages of one sender are handled in the order they were posted.       *)
(***************************************************************************)
EXTENDS Integers, Sequences, FiniteSets, TLC

\* ------------------------------------------------------------------ bounds
NumInstances == 3
MainInstances == 2
MaxVal == 1
MaxInbox == 1
ScenarioInbox == 2
MaxForeign == 1
MaxMutations == 3
MaxBurst == 2

Inst == 1..NumInstances
\* The instances that are started in the behaviours of Spec.
Main == 1..MainInstances

\* ------------------------------------------------------------- program text
LOAD == "LOAD"
STATE_UPDATE == "STATE_UPDATE"
\* The value JavaScript gives for a property that is absent.
Undefined == "undefined"
\* message.source of a message that has no source (instance ids are 1..N).
NoSource == 0

\* ------------------------------------------------------------------ values
\* A JavaScript value: a primitive, a function, or a reference to an object
\* (two objects are === exactly when they are the same reference).
Prim(n) == [t |-> "primitive", v |-> n]
Fn == [t |-> "function", v |-> 0]
Obj(r) == [t |-> "object", v |-> r]
PrimValues == {Prim(n) : n \in 0..MaxVal}

\* The stores of the model, each by its top-level keys in the order
\* Object.keys enumerates them.
SharedStore == <<"count", "_reset", "_token">>
PeopleStore == <<"count", "_reset", "_token", "actions">>
PrivateStore == <<"_reset", "_token">>
KeysOf(shape) == {shape[n] : n \in 1..Len(shape)}

\* The characters of a key (what a regular expression is matched against).
KeyChars(key) ==
    CASE key = "count"   -> <<"c", "o", "u", "n", "t">>
      [] key = "_reset"  -> <<"_", "r", "e", "s", "e", "t">>
      [] key = "_token"  -> <<"_", "t", "o", "k", "e", "n">>
      [] key = "actions" -> <<"a", "c", "t", "i", "o", "n", "s">>

\* The state the store's initializer returns.
InitialState(shape) ==
    [k \in KeysOf(shape) |->
        CASE k = "count"   -> Prim(0)
          [] k = "_reset"  -> Fn
          [] k = "_token"  -> Prim(0)
          [] k = "actions" -> Obj(1)]

\* The initial state of a store whose initializer draws initial data (as
\* the faker data of use-people-store.ts): count starts at c.
SeededState(shape, c) ==
    [k \in KeysOf(shape) |->
        IF k = "count" THEN Prim(c) ELSE InitialState(shape)[k]]

\* The name options the stores of the repository give to createWithSync.
SharedName == "shared-store"
PeopleName == "people-store"

\* A mapping from field names to values with no field (pendingDiff = {}).
EmptyRecord == [k \in {} |-> Prim(0)]

\* { ...a, ...b }
Spread(a, b) ==
    [k \in (DOMAIN a) \cup (DOMAIN b) |-> IF k \in DOMAIN b THEN b[k] ELSE a[k]]

\* ------------------------------------------------------- exclude entries
\* An entry of options.exclude: a key name, or a regular expression.  The
\* regular expressions of the model are /^lit/ and /^lit/g.
ExactKey(k) == [isRegExp |-> FALSE, key |-> k, lit |-> <<>>, global |-> FALSE]
RegExpPrefix(lit, g) == [isRegExp |-> TRUE, key |-> "", lit |-> lit, global |-> g]

\* The configurations the model is run in: a store, options.exclude, and
\* whether the transport hands a publisher its own messages (BroadcastChannel
\* does not; a relay behind electronAPI may).
Environment(shape, excl, selfDelivery) ==
    [keys |-> shape, exclude |-> excl, echo |-> selfDelivery]
Environments ==
    { Environment(SharedStore, <<>>, FALSE),
      Environment(SharedStore, <<>>, TRUE),
      Environment(SharedStore, <<ExactKey("_token")>>, FALSE),
      Environment(SharedStore, <<RegExpPrefix(<<"_">>, FALSE)>>, FALSE),
      Environment(SharedStore, <<RegExpPrefix(<<"_">>, TRUE)>>, FALSE),
      Environment(PeopleStore, <<>>, FALSE),
      Environment(PrivateStore, <<ExactKey("_token")>>, FALSE) }

VARIABLES
    keys,         \* the top-level keys of the store, in Object.keys order
    exclude,      \* syncOptions.exclude, the same in every instance
    configured,   \* per instance: the name option given to createWithSync
    name,         \* per instance: syncOptions.name
    phase,        \* per instance: "Uninitialized", "Active" or "LocalOnly"
    state,        \* per instance: the store's state (get())
    pendingDiff,  \* per instance: pendingDiff
    flushTimer,   \* per instance: "null", "armed", or "expired" (a handle
                  \* that is not null although its timer has already run)
    lastIndex,    \* per instance: lastIndex of each entry of exclude
    inbox,        \* per instance: the messages queued for its handler
    capacity,     \* how many messages the model lets queue for one instance
    echo,         \* whether the transport hands a publisher its own messages
    foreign,      \* how many messages other programs have put on the channel
    mutations,    \* how many local mutations have been made
    window,       \* history: per instance, the local changes of "count"
                  \* since the flush timer was last disarmed
    last          \* history: the step just taken

vars == <<keys, exclude, configured, name, phase, state, pendingDiff, flushTimer, lastIndex, inbox,
          capacity, echo, foreign, mutations, window, last>>

\* --------------------------------------------------------------- messages
\* origin is history: the place that posted the message ("construct",
\* "flushDiff", "onMessage", or "foreign" for another program's message).
Message(type, source, payload, origin) ==
    [isNull |-> FALSE, type |-> type, source |-> source, payload |-> payload,
     origin |-> origin]
\* A message that is null (or any falsy value).
NullMessage ==
    [isNull |-> TRUE, type |-> Undefined, source |-> NoSource,
     payload |-> EmptyRecord, origin |-> "foreign"]

\* instanceId of instance i.
instanceId(i) == i

\* ----------------------------------------------------- matchPatternOrKey
IsPrefix(p, s) == Len(p) <= Len(s) /\ \A n \in 1..Len(p) : s[n] = p[n]

\* RegExp.prototype.test for /^lit/ and /^lit/g: a global expression starts
\* at its lastIndex and leaves there the end of the match, or 0 on failure.
RegExpTest(re, li, key) ==
    LET start == IF re.global THEN li ELSE 0
        found == start = 0 /\ IsPrefix(re.lit, KeyChars(key))
    IN  [res |-> found,
         li  |-> IF re.global THEN (IF found THEN Len(re.lit) ELSE 0) ELSE li]

RECURSIVE matchFrom(_, _, _, _)
matchFrom(key, patterns, lis, n) ==
    IF n > Len(patterns) THEN [res |-> FALSE, li |-> lis]
    ELSE LET patternOrKey == patterns[n] IN
         IF ~patternOrKey.isRegExp
         THEN IF key = patternOrKey.key
              THEN [res |-> TRUE, li |-> lis]
              ELSE matchFrom(key, patterns, lis, n + 1)
         ELSE LET t == RegExpTest(patternOrKey, lis[n], key) IN
              IF t.res
              THEN [res |-> TRUE, li |-> [lis EXCEPT ![n] = t.li]]
              ELSE matchFrom(key, patterns, [lis EXCEPT ![n] = t.li], n + 1)

\* [res: whether key matches an entry, li: the expressions' lastIndex after]
matchPatternOrKey(key, patterns, lis) == matchFrom(key, patterns, lis, 1)

\* ---------------------------------------------------------- getKeysToSync
RECURSIVE keysFrom(_, _, _)
keysFrom(currentState, lis, n) ==
    IF n > Len(keys) THEN [keys |-> {}, li |-> lis]
    ELSE LET key == keys[n]
             m == matchPatternOrKey(key, exclude, lis)
             keep == ~m.res /\ currentState[key].t # "function"
             rest == keysFrom(currentState, m.li, n + 1)
         IN  [keys |-> IF keep THEN {key} \cup rest.keys ELSE rest.keys,
              li   |-> rest.li]

\* [keys: the keys to sync, li: the expressions' lastIndex after the call].
\* Object.keys(currentState) is keys: no step adds a key to a state or
\* removes one (KeysKept).
getKeysToSync(currentState, lis) == keysFrom(currentState, lis, 1)

\* -------------------------------------------------------------- hashState
\* Strings are sequences of character codes.
CharCode(c) ==
    CASE c = "_" -> 95  [] c = "a" -> 97  [] c = "c" -> 99  [] c = "e" -> 101
      [] c = "i" -> 105 [] c = "k" -> 107 [] c = "n" -> 110 [] c = "o" -> 111
      [] c = "r" -> 114 [] c = "s" -> 115 [] c = "t" -> 116 [] c = "u" -> 117
KeyCodes(key) == [n \in 1..Len(KeyChars(key)) |-> CharCode(KeyChars(key)[n])]

\* The decimal digits of a number, as character codes.
RECURSIVE Digits(_)
Digits(n) == IF n < 10 THEN <<48 + n>> ELSE Digits(n \div 10) \o <<48 + (n % 10)>>

\* JSON.stringify of a value: a number gives its digits, and an object
\* whose properties are all functions gives "{}".
stringifyValue(value) ==
    IF value.t = "primitive" THEN Digits(value.v) ELSE <<123, 125>>

\* The members of JSON.stringify(obj) from the n-th key on; a property whose
\* value is a function is left out.
RECURSIVE stringifyFrom(_, _, _)
stringifyFrom(obj, n, first) ==
    IF n > Len(keys) THEN <<>>
    ELSE LET key == keys[n] IN
         IF obj[key].t = "function" THEN stringifyFrom(obj, n + 1, first)
         ELSE (IF first THEN <<>> ELSE <<44>>)
              \o <<34>> \o KeyCodes(key) \o <<34, 58>>
              \o stringifyValue(obj[key])
              \o stringifyFrom(obj, n + 1, FALSE)

JSONstringify(obj) == <<123>> \o stringifyFrom(obj, 1, TRUE) \o <<125>>

\* A 32-bit integer is kept as its two 16-bit halves, [hi, lo].
RECURSIVE Xor(_, _)
Xor(a, b) ==
    IF a = 0 THEN b
    ELSE IF b = 0 THEN a
    ELSE ((a + b) % 2) + 2 * Xor(a \div 2, b \div 2)

\* (hash * 33) ^ code, in 32 bits (the product is exact in a double, and ^
\* keeps its low 32 bits).
hashStep(hash, code) ==
    LET lo == hash.lo * 33
        hi == hash.hi * 33 + (lo \div 2^16)
    IN  [hi |-> hi % 2^16, lo |-> Xor(lo % 2^16, code)]

\* n.toString(16) for n = hash >>> 0: the hexadecimal digits, most
\* significant first and with no leading zero.
RECURSIVE StripZeros(_)
StripZeros(digits) ==
    IF Len(digits) > 1 /\ digits[1] = 0 THEN StripZeros(Tail(digits)) ELSE digits
toString16(hash) ==
    LET Nibbles(h) == <<h \div 4096, (h \div 256) % 16, (h \div 16) % 16, h % 16>>
    IN  StripZeros(Nibbles(hash.hi) \o Nibbles(hash.lo))

\* hashStr (lines 20-26): "channel-" followed by the djb2 hash in hex.
\* loop[x] is the value of hash after the loop of lines 22-24 has run over
\* the characters x.from .. x.to starting with hash = [x.hi, x.lo]; the range
\* is run as its two halves, one after the other.
hashStr(str) ==
    LET loop[x \in [from : 1..(Len(str) + 1), to : 0..Len(str),
                    hi : 0..(2^16 - 1), lo : 0..(2^16 - 1)]] ==
            IF x.from > x.to THEN [hi |-> x.hi, lo |-> x.lo]
            ELSE IF x.from = x.to
            THEN hashStep([hi |-> x.hi, lo |-> x.lo], str[x.from])
            ELSE LET mid == (x.from + x.to) \div 2
                     half == loop[[from |-> x.from, to |-> mid,
                                   hi |-> x.hi, lo |-> x.lo]]
                 IN  loop[[from |-> mid + 1, to |-> x.to,
                           hi |-> half.hi, lo |-> half.lo]]
        hash == loop[[from |-> 1, to |-> Len(str), hi |-> 0, lo |-> 5381]]
    IN  [prefix |-> "channel-", hex |-> toString16(hash)]

\* hashState (lines 28-30).
hashState(obj) == hashStr(JSONstringify(obj))

\* syncOptions.name before the store is created (line 89).
NoName == [prefix |-> "", hex |-> <<>>]

\* ------------------------------------------------------------ the channel
\* Whether the structured clone of a value succeeds: the objects of this
\* store hold functions, which cannot be cloned.
Cloneable(value) == value.t = "primitive"
\* Whether channel.postMessage(message) raises DataCloneError.
PostThrows(message) ==
    \E k \in DOMAIN message.payload : ~Cloneable(message.payload[k])

\* The instances that have a handler on the channel of a name.
Subscribers(channelName) ==
    {j \in Inst : phase[j] = "Active" /\ name[j] = channelName}

\* The instances a message posted by i on the channel of a name is queued
\* for: every other subscriber and, when the transport echoes, i itself.
Recipients(i, channelName) ==
    (Subscribers(channelName) \ {i}) \cup (IF echo THEN {i} ELSE {})

HasRoom(queues, rcpt) == \A j \in rcpt : Len(queues[j]) < capacity

Queued(queues, rcpt, message) ==
    [j \in Inst |-> IF j \in rcpt THEN Append(queues[j], message) ELSE queues[j]]

NoStep == [op |-> "init", inst |-> 0, msg |-> NullMessage, out |-> <<>>,
           threw |-> FALSE]
Step(op, i, msg, out, threw) ==
    [op |-> op, inst |-> i, msg |-> msg, out |-> out, threw |-> threw]

NoWindow == [n |-> 0, final |-> Prim(0)]

\* Nothing is constructed yet: every instance has a name option among names
\* and an initial state seeded from seeds.
SetupWith(room, names, seeds) ==
    /\ capacity = room
    /\ \E env \in Environments :
        /\ keys = env.keys
        /\ exclude = env.exclude
        /\ echo = env.echo
    /\ configured \in [Inst -> names]
    /\ name = [i \in Inst |-> NoName]
    /\ phase = [i \in Inst |-> "Uninitialized"]
    /\ \E seed \in [Inst -> seeds] :
        state = [i \in Inst |-> SeededState(keys, seed[i])]
    /\ pendingDiff = [i \in Inst |-> EmptyRecord]
    /\ flushTimer = [i \in Inst |-> "null"]
    /\ lastIndex = [i \in Inst |-> [n \in 1..Len(exclude) |-> 0]]
    /\ inbox = [i \in Inst |-> <<>>]
    /\ foreign = 0
    /\ mutations = 0
    /\ window = [i \in Inst |-> NoWindow]
    /\ last = NoStep

\* Every instance is the same store: one name option, one initial state.
Setup(room) == SetupWith(room, {SharedName}, {0})

Init == Setup(MaxInbox)

\* create(): the body of the callback given to create<T>(), lines 96-180.
\* The channel name is the hash of the initial state.  With no channel the
\* instance only runs the initializer; otherwise it posts LOAD and registers
\* its handler.
\* A startup message that does not carry the instance id.
startupMessageNoSource(i) == Message(LOAD, NoSource, EmptyRecord, "construct")

\* Line 144: { type: LOAD, source: instanceId }.
startupMessage(i) == Message(LOAD, instanceId(i), EmptyRecord, "construct")

Construct(i) ==
    /\ phase[i] = "Uninitialized"
    /\ name' = [name EXCEPT ![i] = hashState(state[i])]
    /\ \E available \in BOOLEAN :
        IF ~available
        THEN /\ phase' = [phase EXCEPT ![i] = "LocalOnly"]
             /\ inbox' = inbox
             /\ last' = Step("construct", i, NullMessage, <<>>, FALSE)
        ELSE LET message == startupMessage(i)
                 rcpt == Recipients(i, hashState(state[i]))
             IN  /\ HasRoom(inbox, rcpt)
                 /\ phase' = [phase EXCEPT ![i] = "Active"]
                 /\ inbox' = Queued(inbox, rcpt, message)
                 /\ last' = Step("construct", i, NullMessage, <<message>>, FALSE)
    /\ UNCHANGED <<keys, exclude, configured,
                   capacity, state, pendingDiff, flushTimer,
                   lastIndex, echo, foreign, mutations, window>>

\* ------------------------------------------------------------- customSet
\* The fields customSet writes into pendingDiff (lines 152-156).
Contribution(prevState, currentState, keysToSync) ==
    [k \in {key \in keysToSync : currentState[key] # prevState[key]} |->
        currentState[k]]

\* scheduleFlush (lines 124-128): the timer handle after the call.
scheduleFlush(timer) == IF timer = "null" THEN "armed" ELSE timer

\* The store's own set(partial): the state with one field replaced.
set(prevState, key, value) == [prevState EXCEPT ![key] = value]

\* history: the changes of "count" made since flushDiff last ran
Noted(w, prevState, key, value) ==
    IF key = "count" /\ value # prevState[key]
    THEN [n |-> IF w.n < MaxBurst THEN w.n + 1 ELSE w.n, final |-> value]
    ELSE w

customSet(i, key, value) ==
    LET prevState == state[i]
        currentState == set(prevState, key, value)
        g == getKeysToSync(currentState, lastIndex[i])
        keysToSync == g.keys
    IN  /\ state' = [state EXCEPT ![i] = currentState]
        /\ lastIndex' = [lastIndex EXCEPT ![i] = g.li]
        /\ IF keysToSync = {}
           THEN UNCHANGED <<pendingDiff, flushTimer>>
           ELSE /\ pendingDiff' = [pendingDiff EXCEPT ![i] =
                      Spread(@, Contribution(prevState, currentState, keysToSync))]
                /\ flushTimer' = [flushTimer EXCEPT ![i] = scheduleFlush(@)]
        /\ window' = [window EXCEPT ![i] = Noted(@, prevState, key, value)]
        /\ last' = Step("customSet", i, NullMessage, <<>>, FALSE)
        /\ mutations' = mutations + 1
        /\ UNCHANGED <<keys, exclude, configured, name,
                   capacity, phase, inbox, echo, foreign>>

\* The mutations a caller makes: a primitive field set to any value, or the
\* actions object replaced by a new object (a reference other than the
\* current one).
Mutations(st) ==
    {mu \in {<<k, v>> : k \in {"count", "_token"}, v \in PrimValues} :
        mu[1] \in DOMAIN st}
    \cup (IF "actions" \in DOMAIN st
          THEN {<<"actions", Obj(3 - st["actions"].v)>>} ELSE {})

\* A local mutation of an Active instance, through the wrapped entrypoint.
LocalMutation(i) ==
    /\ phase[i] = "Active"
    /\ mutations < MaxMutations
    /\ \E mu \in Mutations(state[i]) : customSet(i, mu[1], mu[2])

\* An instance without a channel whose initializer is given customSet.
LocalOnlyMutationSynced(i) ==
    /\ phase[i] = "LocalOnly"
    /\ mutations < MaxMutations
    /\ \E mu \in Mutations(state[i]) : customSet(i, mu[1], mu[2])

\* A local mutation of a LocalOnly instance: initializer(set, get, api) was
\* given the store's own set (line 105).
LocalOnlyMutation(i) ==
    /\ phase[i] = "LocalOnly"
    /\ mutations < MaxMutations
    /\ mutations' = mutations + 1
    /\ \E mu \in Mutations(state[i]) :
        state' = [state EXCEPT ![i] = set(@, mu[1], mu[2])]
    /\ last' = Step("set", i, NullMessage, <<>>, FALSE)
    /\ UNCHANGED <<keys, exclude, configured, name,
                   capacity, phase, pendingDiff, flushTimer,
                   lastIndex, inbox, echo, foreign, window>>

\* ------------------------------------------------------------- flushDiff
\* The payload of the message flushDiff posts: { ...pendingDiff }.
flushPayload(pd) == pd

\* The flush timer of i expires and runs flushDiff (lines 112-122).  When
\* postMessage raises, the two assignments after it are not reached.
flushDiff(i) ==
    /\ phase[i] = "Active"
    /\ flushTimer[i] = "armed"
    /\ IF DOMAIN pendingDiff[i] # {}
       THEN LET message == Message(STATE_UPDATE, instanceId(i),
                                   flushPayload(pendingDiff[i]), "flushDiff")
            IN  IF PostThrows(message)
                THEN /\ flushTimer' = [flushTimer EXCEPT ![i] = "expired"]
                     /\ last' = Step("flushDiff", i, NullMessage, <<message>>, TRUE)
                     /\ UNCHANGED <<pendingDiff, inbox>>
                ELSE /\ HasRoom(inbox, Recipients(i, name[i]))
                     /\ inbox' = Queued(inbox, Recipients(i, name[i]), message)
                     /\ pendingDiff' = [pendingDiff EXCEPT ![i] = EmptyRecord]
                     /\ flushTimer' = [flushTimer EXCEPT ![i] = "null"]
                     /\ last' = Step("flushDiff", i, NullMessage, <<message>>, FALSE)
       ELSE /\ flushTimer' = [flushTimer EXCEPT ![i] = "null"]
            /\ last' = Step("flushDiff", i, NullMessage, <<>>, FALSE)
            /\ UNCHANGED <<pendingDiff, inbox>>
    /\ window' = [window EXCEPT ![i] = NoWindow]
    /\ UNCHANGED <<keys, exclude, configured, name,
                   capacity, phase, state, lastIndex, echo,
                   foreign, mutations>>

\* ------------------------------------------------------------- onMessage
\* A handler that does not compare message.source with instanceId.
DiscardsOnlyNull(i, message) == message.isNull

\* Line 161: the messages the handler returns from at once.
Discards(i, message) == message.isNull \/ message.source = instanceId(i)

\* Lines 163-168: the snapshot sent in answer to LOAD.
fullState(currentState, keysToSync) == [k \in keysToSync |-> currentState[k]]

\* A merge in which the local fields win: { ...message.payload, ...prev }.
MergedLocalWins(prev, payload) == Spread(payload, prev)

\* A merge that adds the payload's numbers to the local ones.
MergedAdditive(prev, payload) ==
    [k \in (DOMAIN prev) \cup (DOMAIN payload) |->
        IF k \notin DOMAIN payload THEN prev[k]
        ELSE IF k \in DOMAIN prev /\ prev[k].t = "primitive"
                /\ payload[k].t = "primitive"
        THEN Prim((prev[k].v + payload[k].v) % (MaxVal + 1))
        ELSE payload[k]]

\* Line 175: set((prev) => ({ ...prev, ...message.payload })).
Merged(prev, payload) == Spread(prev, payload)

\* A handler that applies an update through customSet: the fields it
\* changes go into pendingDiff and the flush timer is armed.
applyUpdateViaCustomSet(i, message) ==
    LET currentState == Merged(state[i], message.payload)
        changed == {k \in DOMAIN message.payload : currentState[k] # state[i][k]}
    IN  /\ state' = [state EXCEPT ![i] = currentState]
        /\ pendingDiff' = [pendingDiff EXCEPT ![i] =
               Spread(@, [k \in changed |-> currentState[k]])]
        /\ flushTimer' = [flushTimer EXCEPT ![i] = scheduleFlush(@)]

\* Line 175: the update goes through the store's own set, which leaves
\* pendingDiff and the flush timer alone.
applyUpdate(i, message) ==
    /\ state' = [state EXCEPT ![i] = Merged(@, message.payload)]
    /\ UNCHANGED <<pendingDiff, flushTimer>>

Without(queue, n) ==
    SubSeq(queue, 1, n - 1) \o SubSeq(queue, n + 1, Len(queue))

\* The transport hands i the n-th message queued for it; messages of one
\* sender are handed over in the order they were posted.
onMessage(i, n) ==
    /\ phase[i] = "Active"
    /\ n \in DOMAIN inbox[i]
    /\ \A m \in 1..(n - 1) : inbox[i][m].source # inbox[i][n].source
    /\ LET message == inbox[i][n]
           rest == [inbox EXCEPT ![i] = Without(@, n)]
       IN  IF Discards(i, message)
           THEN /\ inbox' = rest
                /\ last' = Step("onMessage", i, message, <<>>, FALSE)
                /\ UNCHANGED <<state, lastIndex, pendingDiff, flushTimer>>
           ELSE IF message.type = LOAD
           THEN LET g == getKeysToSync(state[i], lastIndex[i])
                    reply == Message(STATE_UPDATE, instanceId(i),
                                     fullState(state[i], g.keys), "onMessage")
                IN  /\ lastIndex' = [lastIndex EXCEPT ![i] = g.li]
                    /\ UNCHANGED <<state, pendingDiff, flushTimer>>
                    /\ IF PostThrows(reply)
                       THEN /\ inbox' = rest
                            /\ last' = Step("onMessage", i, message, <<reply>>, TRUE)
                       ELSE /\ HasRoom(rest, Recipients(i, name[i]))
                            /\ inbox' = Queued(rest, Recipients(i, name[i]), reply)
                            /\ last' = Step("onMessage", i, message, <<reply>>, FALSE)
           ELSE IF message.type = STATE_UPDATE
           THEN /\ applyUpdate(i, message)
                /\ inbox' = rest
                /\ last' = Step("onMessage", i, message, <<>>, FALSE)
                /\ lastIndex' = lastIndex
           ELSE /\ inbox' = rest
                /\ last' = Step("onMessage", i, message, <<>>, FALSE)
                /\ UNCHANGED <<state, lastIndex, pendingDiff, flushTimer>>
    /\ UNCHANGED <<keys, exclude, configured, name,
                   capacity, phase, echo, foreign, mutations, window>>

\* -------------------------------------------------- other programs' messages
\* Messages that are not the middleware's: null, one with no type, and a
\* STATE_UPDATE and a LOAD with no source.  Their payload has a key that
\* every store has, so that Object.keys of a state stays the store's keys.
ForeignMessages ==
    { NullMessage,
      Message(Undefined, NumInstances + 1, [_token |-> Prim(MaxVal)], "foreign"),
      Message(STATE_UPDATE, NoSource, [_token |-> Prim(MaxVal)], "foreign"),
      Message(LOAD, NoSource, EmptyRecord, "foreign") }

\* Another program posts a message on the channel of some instance (the
\* handler of line 160 is given whatever arrives).
ForeignPost ==
    /\ foreign < MaxForeign
    /\ \E message \in ForeignMessages, j \in Inst :
        LET rcpt == Subscribers(name[j])
        IN  /\ rcpt # {}
            /\ HasRoom(inbox, rcpt)
            /\ inbox' = Queued(inbox, rcpt, message)
            /\ last' = Step("foreign", 0, NullMessage, <<message>>, FALSE)
    /\ foreign' = foreign + 1
    /\ UNCHANGED <<keys, exclude, configured, name,
                   capacity, phase, state, pendingDiff,
                   flushTimer, lastIndex, echo, mutations, window>>

Next ==
    \/ \E i \in Main : Construct(i)
    \/ \E i \in Inst : LocalMutation(i)
    \/ \E i \in Inst : LocalOnlyMutation(i)
    \/ \E i \in Inst : flushDiff(i)
    \/ \E i \in Inst : \E n \in DOMAIN inbox[i] : onMessage(i, n)
    \/ ForeignPost

Spec == Init /\ [][Next]_vars

\* ------------------------------------------------------------ scenarios
\* One writer: every instance may start, only instance Writer makes local
\* mutations, no other program posts, nothing is excluded, and the transport
\* is one that hands no publisher its own messages.
Writer == instanceId(1)
SingleWriterInit ==
    Setup(ScenarioInbox) /\ keys = SharedStore /\ exclude = <<>> /\ ~echo
SingleWriterNext ==
    \/ \E i \in Inst : Construct(i)
    \/ LocalMutation(Writer)
    \/ \E i \in Inst : flushDiff(i)
    \/ \E i \in Inst : \E n \in DOMAIN inbox[i] : onMessage(i, n)
SpecSingleWriter == SingleWriterInit /\ [][SingleWriterNext]_vars

\* Late joiner: as above, and instance Joiner starts after Writer has made a
\* local mutation, and Writer makes none once Joiner has started.
Joiner == NumInstances
LateJoinNext ==
    \/ \E i \in Inst \ {Joiner} : Construct(i)
    \/ (mutations > 0 /\ Construct(Joiner))
    \/ (phase[Joiner] = "Uninitialized" /\ LocalMutation(Writer))
    \/ \E i \in Inst : flushDiff(i)
    \/ \E i \in Inst : \E n \in DOMAIN inbox[i] : onMessage(i, n)
SpecLateJoin == SingleWriterInit /\ [][LateJoinNext]_vars

\* Stores of two names: each instance that is started has one of the two
\* name options of the repository and an initial count of its own (as the
\* initial data of use-people-store.ts differs from one tab to the next).
ChannelsInit ==
    /\ SetupWith(MaxInbox, {SharedName, PeopleName}, 0..MaxVal)
    /\ keys = SharedStore /\ exclude = <<>> /\ ~echo
    /\ \A i \in Inst \ Main :
          configured[i] = SharedName /\ state[i] = InitialState(keys)
SpecChannels == ChannelsInit /\ [][Next]_vars

\* Fair running: only the instances post (no other program does), an armed
\* flush timer expires (setTimeout runs its callback) and a queued message
\* is handed to its handler.  Constructions and local mutations are the
\* caller's and need not happen; there are finitely many of them.
FairNext ==
    \/ \E i \in Main : Construct(i)
    \/ \E i \in Inst : LocalMutation(i)
    \/ \E i \in Inst : LocalOnlyMutation(i)
    \/ \E i \in Inst : flushDiff(i)
    \/ \E i \in Inst : \E n \in DOMAIN inbox[i] : onMessage(i, n)
Fairness ==
    \A i \in Inst :
        /\ WF_vars(flushDiff(i))
        /\ WF_vars(\E n \in DOMAIN inbox[i] : onMessage(i, n))
SpecFair == Init /\ [][FairNext]_vars /\ Fairness

\* Object.keys of every state is the store's keys.
KeysKept == \A i \in Inst : DOMAIN state[i] = KeysOf(keys)

\* ================================================================ claims
\* The vocabulary of the claims.

\* Whether an entry of exclude matches a key (the expression's language).
Matches(key, entry) ==
    IF entry.isRegExp THEN IsPrefix(entry.lit, KeyChars(key)) ELSE key = entry.key
Excluded(key) == \E n \in 1..Len(exclude) : Matches(key, exclude[n])
\* The eligible fields of a state: not excluded, not callable, transmissible.
Eligible(st) == {k \in DOMAIN st : ~Excluded(k) /\ st[k].t = "primitive"}
\* The step just taken was the handler of last.inst given last.msg.
Handled == last.op = "onMessage" /\ ~last.msg.isNull
\* Instance i is left as it was by the step, and the step posts nothing.
NoEffectOn(i) ==
    /\ state'[i] = state[i]
    /\ pendingDiff'[i] = pendingDiff[i]
    /\ flushTimer'[i] = flushTimer[i]
    /\ last'.out = <<>>
    /\ \A j \in Inst \ {i} : inbox'[j] = inbox[j]
\* The messages the middleware handed to channel.postMessage in the step.
Posted == IF last.op = "foreign" THEN {} ELSE {last.out[n] : n \in DOMAIN last.out}

\* C1: an instance given a message whose source is its own id returns with
\* its state, pendingDiff and flush timer unchanged and posts nothing.
C1_NoSelfEcho ==
    [][(Handled' /\ last'.msg.source = instanceId(last'.inst))
         => NoEffectOn(last'.inst)]_vars
\* An instance was handed its own STATE_UPDATE, whose payload differs from
\* its state by now.
C1_Witness ==
    /\ Handled
    /\ last.msg.source = instanceId(last.inst)
    /\ last.msg.type = STATE_UPDATE
    /\ \E k \in DOMAIN last.msg.payload : state[last.inst][k] # last.msg.payload[k]

\* C2: no payload the middleware posts (a flushed diff or a snapshot in
\* answer to LOAD) has a key that an entry of exclude matches.
C2_ExclusionCorrectness ==
    \A m \in Posted : \A k \in DOMAIN m.payload : ~Excluded(k)

\* C3: when the flush timer expires after K >= 1 local changes of count, the
\* instance posts exactly one STATE_UPDATE, and its count is the last value.
C3_Batching ==
    [][(last'.op = "flushDiff" /\ window[last'.inst].n >= 1)
         => /\ Len(last'.out) = 1
            /\ ~last'.threw
            /\ last'.out[1].type = STATE_UPDATE
            /\ "count" \in DOMAIN last'.out[1].payload
            /\ last'.out[1].payload["count"] = window[last'.inst].final]_vars

\* No message is queued and no flush timer is armed.
Quiescent == \A i \in Inst : inbox[i] = <<>> /\ flushTimer[i] # "armed"
\* Instances i and j have the same values in their eligible fields.
Agree(i, j) ==
    /\ Eligible(state[i]) = Eligible(state[j])
    /\ \A k \in Eligible(state[i]) : state[i][k] = state[j][k]

\* C4: with one writer and nothing excluded, once the flush timers have
\* fired and every message has been handled, every instance on the channel
\* has the writer's values in its eligible fields.
C4_Convergence ==
    (Quiescent /\ phase[Writer] = "Active")
        => \A i \in Inst : phase[i] = "Active" => Agree(i, Writer)

\* C5: an instance started after the writer's mutations has the writer's
\* values in its eligible fields once its LOAD and the answers are handled.
C5_LateJoiner ==
    (Quiescent /\ phase[Writer] = "Active" /\ phase[Joiner] = "Active")
        => Agree(Joiner, Writer)

\* C6: after an instance handles a STATE_UPDATE of another sender, every
\* field of the payload has the payload's value and every other field its
\* previous value.
C6_InboundMerge ==
    [][(Handled' /\ last'.msg.type = STATE_UPDATE
          /\ last'.msg.source # instanceId(last'.inst))
         => LET i == last'.inst
                payload == last'.msg.payload
            IN  /\ DOMAIN state'[i] = (DOMAIN state[i]) \cup (DOMAIN payload)
                /\ \A k \in DOMAIN payload : state'[i][k] = payload[k]
                /\ \A k \in (DOMAIN state[i]) \ (DOMAIN payload) :
                       state'[i][k] = state[i][k]]_vars
\* An instance merged a peer's count over a different count of its own that
\* is still in its pendingDiff.
C6_Witness ==
    /\ Handled
    /\ last.msg.type = STATE_UPDATE
    /\ last.msg.source \in Inst \ {last.inst}
    /\ "count" \in DOMAIN last.msg.payload
    /\ "count" \in DOMAIN pendingDiff[last.inst]
    /\ pendingDiff[last.inst]["count"] # last.msg.payload["count"]
    /\ state[last.inst]["count"] = last.msg.payload["count"]

\* C7: an instance that handles LOAD of another instance posts exactly one
\* STATE_UPDATE, whose payload is its eligible fields with their values.
C7_JoinReply ==
    [][(Handled' /\ last'.msg.type = LOAD
          /\ last'.msg.source \in Inst \ {last'.inst})
         => LET i == last'.inst IN
            /\ Len(last'.out) = 1
            /\ ~last'.threw
            /\ last'.out[1].type = STATE_UPDATE
            /\ last'.out[1].source = instanceId(i)
            /\ DOMAIN last'.out[1].payload = Eligible(state[i])
            /\ \A k \in Eligible(state[i]) :
                   last'.out[1].payload[k] = state[i][k]]_vars

\* C8: no message of another instance changes the value an instance has for
\* an excluded field.
C8_ExcludedStayLocal ==
    [][(Handled' /\ last'.msg.origin # "foreign"
          /\ last'.msg.source \in Inst \ {last'.inst})
         => \A k \in DOMAIN state[last'.inst] :
                Excluded(k) => state'[last'.inst][k] = state[last'.inst][k]]_vars

\* C9: no payload the middleware posts has a field whose value is a function
\* or an object that cannot be cloned.
C9_NotTransmissibleOmitted ==
    \A m \in Posted : \A k \in DOMAIN m.payload : m.payload[k].t = "primitive"

\* C10: an instance given a message with no type or with no source returns
\* with its state, pendingDiff and flush timer unchanged and posts nothing.
C10_MalformedIgnored ==
    [][(Handled' /\ (last'.msg.type = Undefined \/ last'.msg.source = NoSource))
         => NoEffectOn(last'.inst)]_vars

\* C11: an instance that found no channel at construction stays LocalOnly;
\* it posts nothing (no LOAD either), no message is queued for it or applied
\* to it, its pendingDiff stays empty and its flush timer null, and each of
\* its local mutations is the store's own set of the field.
C11_LocalOnlyDegradation ==
    [][\A i \in Inst :
         /\ phase[i] = "LocalOnly" => phase'[i] = "LocalOnly"
         /\ phase'[i] = "LocalOnly" =>
               /\ inbox'[i] = <<>>
               /\ pendingDiff'[i] = EmptyRecord
               /\ flushTimer'[i] = "null"
               /\ last'.inst # i => state'[i] = state[i]
               /\ last'.inst = i =>
                     /\ last'.out = <<>>
                     /\ last'.op \in {"construct", "set"}
                     /\ last'.op = "construct" => state'[i] = state[i]
                     /\ last'.op = "set" =>
                           \E mu \in Mutations(state[i]) :
                               state'[i] = set(state[i], mu[1], mu[2])]_vars
\* An instance posts a flushed diff while a LocalOnly instance, which has
\* made a local mutation, is there.
C11_Witness ==
    /\ last.op = "flushDiff"
    /\ last.out # <<>>
    /\ ~last.threw
    /\ \E i \in Inst : phase[i] = "LocalOnly" /\ state[i] # InitialState(keys)

\* C12: a LOAD is posted only by the construction of an instance, with that
\* instance's id as source; an instance becomes Active only by a construction
\* that posts exactly one LOAD; a constructed instance is never constructed
\* again; and only an Active instance flushes, handles or mutates through
\* customSet (so its LOAD comes first).
C12_LoadOnConstruction ==
    [][/\ \A m \in Posted' :
             m.type = LOAD =>
                 /\ last'.op = "construct"
                 /\ phase[last'.inst] = "Uninitialized"
                 /\ m.source = instanceId(last'.inst)
       /\ \A i \in Inst :
             (phase[i] # "Active" /\ phase'[i] = "Active") =>
                 /\ phase[i] = "Uninitialized"
                 /\ last'.op = "construct" /\ last'.inst = i
                 /\ Len(last'.out) = 1
                 /\ last'.out[1].type = LOAD
                 /\ last'.out[1].source = instanceId(i)
       /\ \A i \in Inst : phase[i] # "Uninitialized" => phase'[i] = phase[i]
       /\ last'.op \in {"flushDiff", "onMessage", "customSet"}
             => phase[last'.inst] = "Active"]_vars
\* A construction has posted LOAD, and the LOAD is queued for a peer.
C12_Witness ==
    /\ last.op = "construct"
    /\ Len(last.out) = 1
    /\ last.out[1].type = LOAD
    /\ \E j \in Inst \ {last.inst} :
          \E n \in DOMAIN inbox[j] : inbox[j][n] = last.out[1]

\* The eligible keys whose value the step changes in instance i.
ChangedEligible(i) == {k \in Eligible(state'[i]) : state'[i][k] # state[i][k]}

\* C13: a customSet after which no eligible key differs from its value
\* before posts nothing and leaves pendingDiff as it was, and a flush posts
\* only a non-empty pendingDiff; so such a mutation leads to no STATE_UPDATE,
\* at once or at the next expiry, unless another mutation contributed.
C13_NoNetChangeNoMessage ==
    [][/\ (last'.op = "customSet" /\ ChangedEligible(last'.inst) = {})
            => /\ pendingDiff'[last'.inst] = pendingDiff[last'.inst]
               /\ last'.out = <<>>
               /\ inbox' = inbox
       /\ (last'.op = "flushDiff" /\ last'.out # <<>>)
            => /\ DOMAIN pendingDiff[last'.inst] # {}
               /\ last'.out[1].payload = pendingDiff[last'.inst]]_vars

\* The message the step posts is queued for instance j.
DeliveredTo(j) ==
    /\ Len(inbox'[j]) = Len(inbox[j]) + 1
    /\ inbox'[j][Len(inbox'[j])] = last'.out[1]

\* C14: a message an instance posts is queued for another instance with a
\* handler exactly when the two were given the same name option.
C14_ChannelIsolation ==
    [][(last'.op \in {"construct", "flushDiff", "onMessage"}
          /\ last'.out # <<>> /\ ~last'.threw)
         => \A j \in Inst \ {last'.inst} :
                phase[j] = "Active" =>
                    (configured[j] = configured[last'.inst] <=> DeliveredTo(j))]_vars

\* C15: when an instance has applied the payload of another instance's
\* STATE_UPDATE, applying the same payload once more gives a state with the
\* same eligible fields and the same values in them.
C15_Idempotence ==
    [][(Handled' /\ last'.msg.type = STATE_UPDATE
          /\ last'.msg.source \in Inst \ {last'.inst})
         => LET once == state'[last'.inst]
                twice == Merged(once, last'.msg.payload)
            IN  /\ Eligible(twice) = Eligible(once)
                /\ \A k \in Eligible(once) : twice[k] = once[k]]_vars
\* An instance with no local change waiting has applied the snapshot of a
\* peer whose count is not the initial one.
C15_Witness ==
    /\ Handled
    /\ last.msg.type = STATE_UPDATE
    /\ last.msg.origin = "onMessage"
    /\ last.msg.source \in Inst \ {last.inst}
    /\ "count" \in DOMAIN last.msg.payload
    /\ last.msg.payload["count"] # Prim(0)
    /\ state[last.inst]["count"] = last.msg.payload["count"]
    /\ window[last.inst].n = 0
    /\ flushTimer[last.inst] = "null"

\* C16: customSet adds to pendingDiff exactly the eligible keys whose value
\* it changed, each with its new value; when there is none it leaves
\* pendingDiff and the flush timer as they were, and otherwise it arms the
\* timer if none is armed.
C16_LocalMutationDiff ==
    [][last'.op = "customSet"
         => LET i == last'.inst
                changed == ChangedEligible(i)
            IN  /\ pendingDiff'[i] =
                       Spread(pendingDiff[i], [k \in changed |-> state'[i][k]])
                /\ changed = {} => flushTimer'[i] = flushTimer[i]
                /\ changed # {} =>
                       flushTimer'[i] =
                           IF flushTimer[i] = "null" THEN "armed" ELSE flushTimer[i]]_vars

\* C17: a flush timer that expires with a non-empty pendingDiff posts one
\* STATE_UPDATE whose payload is that pendingDiff and empties pendingDiff in
\* the same step; one that expires with an empty pendingDiff posts nothing;
\* either way the timer is null afterwards.  (flushTimer is one handle, so
\* an instance has at most one timer armed.)
C17_FlushStep ==
    [][last'.op = "flushDiff"
         => LET i == last'.inst IN
            /\ flushTimer[i] = "armed"
            /\ flushTimer'[i] = "null"
            /\ IF DOMAIN pendingDiff[i] # {}
               THEN /\ Len(last'.out) = 1
                    /\ ~last'.threw
                    /\ last'.out[1].type = STATE_UPDATE
                    /\ last'.out[1].source = instanceId(i)
                    /\ last'.out[1].payload = pendingDiff[i]
                    /\ pendingDiff'[i] = EmptyRecord
               ELSE /\ last'.out = <<>>
                    /\ pendingDiff'[i] = pendingDiff[i]]_vars

\* C18: an Active instance whose pendingDiff is not empty has a flush timer
\* armed.
C18_NoStrandedDiff ==
    \A i \in Inst :
        (phase[i] = "Active" /\ DOMAIN pendingDiff[i] # {})
            => flushTimer[i] = "armed"

\* C19: every value in the payload of a flush is the value the instance has
\* for that field when it flushes.
C19_NoStaleBroadcast ==
    [][(last'.op = "flushDiff" /\ last'.out # <<>>)
         => \A k \in DOMAIN last'.out[1].payload :
                last'.out[1].payload[k] = state[last'.inst][k]]_vars

\* C20: handling a STATE_UPDATE changes at most the state of the instance
\* that handles it: pendingDiff and the flush timers stay as they were,
\* nothing is posted and nothing is queued for any instance.
C20_InboundNotRebroadcast ==
    [][(Handled' /\ last'.msg.type = STATE_UPDATE)
         => /\ pendingDiff' = pendingDiff
            /\ flushTimer' = flushTimer
            /\ last'.out = <<>>
            /\ Len(inbox'[last'.inst]) = Len(inbox[last'.inst]) - 1
            /\ \A j \in Inst \ {last'.inst} :
                   inbox'[j] = inbox[j] /\ state'[j] = state[j]]_vars
\* An instance with nothing pending and no timer armed has applied the
\* flushed diff of a peer.
C20_Witness ==
    /\ Handled
    /\ last.msg.type = STATE_UPDATE
    /\ last.msg.origin = "flushDiff"
    /\ last.msg.source \in Inst \ {last.inst}
    /\ \E k \in DOMAIN last.msg.payload :
          last.msg.payload[k] # InitialState(keys)[k]
    /\ state[last.inst] = Merged(InitialState(keys), last.msg.payload)
    /\ pendingDiff[last.inst] = EmptyRecord
    /\ flushTimer[last.inst] = "null"

\* No message is in flight, every flush timer is null and every pendingDiff
\* is empty.
Settled ==
    \A i \in Inst :
        inbox[i] = <<>> /\ flushTimer[i] = "null" /\ pendingDiff[i] = EmptyRecord

\* C21: the handler posts at most one message for a LOAD and none for any
\* other message, and, constructions and local mutations being finitely
\* many, the system comes to stay in a state with no message in flight,
\* every flush timer null and every pendingDiff empty.
C21_Quiescence ==
    /\ [][Handled' => /\ Len(last'.out) <= 1
                       /\ last'.msg.type # LOAD => last'.out = <<>>]_vars
    /\ <>[]Settled

====
